---- MODULE Spec2Model ----
(***************************************************************************)
(* A model of llvm/lib/Object/BuildID.cpp: extraction of a build           *)
(* identifier from an ELF or COFF object file, hex parsing of an           *)
(* identifier, and BuildIDFetcher::fetch, which looks a debug file up      *)
(* under <dir>/.build-id/xx/yyyy.debug.                                    *)
(*                                                                         *)
(* Every behaviour is one call: Init chooses the entry point and its       *)
(* arguments, one action runs the whole function and records what it       *)
(* returned (result), how it ended (pc) and what it touched (trace).       *)
(***************************************************************************)
EXTENDS Integers, Sequences, FiniteSets, TLC

VARIABLES
  call,                  \* the entry point this behaviour invokes
  Obj,                   \* the ObjectFile argument of getBuildID / getCOFFDebugID
  Str,                   \* the StringRef argument of parseBuildID (characters)
  BuildID,               \* the BuildIDRef argument of BuildIDFetcher::fetch
  DebugFileDirectories,  \* BuildIDFetcher's member, in the caller's order
  fs,                    \* the paths for which sys::fs::exists answers true
  pc,                    \* "call", "done", "aborted" (cantFail) or "undefined"
  result,                \* the value returned
  trace                  \* regions handed to findBuildID / paths asked of exists

vars == <<call, Obj, Str, BuildID, DebugFileDirectories, fs, pc, result, trace>>

----------------------------------------------------------------------------
(* Bounds of the model.                                                     *)

MaxRegions == 2      \* section headers, and program headers, per ELF file
MaxDebugDirs == 2    \* debug-directory entries per COFF file
MaxStrLen == 3       \* characters of a parseBuildID argument
MaxDirs == 2         \* entries of DebugFileDirectories

----------------------------------------------------------------------------
(* Helpers.                                                                 *)

SeqsUpTo(S, n) == UNION {[1..k -> S] : k \in 0..n}

alignTo(Value, Align) == ((Value + Align - 1) \div Align) * Align

----------------------------------------------------------------------------
(* ELF: notes, sections and program headers.                                *)

NT_GNU_BUILD_ID == 3
ELF_NOTE_GNU == "GNU"
SHT_NOTE == 7
PT_NOTE == 4

\* Elf_Note::getName: the name field without its terminating NUL.
getName(N) == N.name

\* Elf_Note::getDesc(Align): n_descsz bytes found alignTo(n_namesz, Align)
\* bytes after the note header; N.data holds the bytes after the header.
getDesc(N, Align) ==
  IF N.n_descsz = 0 THEN <<>>
  ELSE SubSeq(N.data, alignTo(N.n_namesz, Align) + 1,
              alignTo(N.n_namesz, Align) + N.n_descsz)

\* Obj.notes(ShdrOrPhdr, Err): the notes the iterator yields, in order, and
\* whether the iteration ended by setting Err (a malformed region).
notes(ShdrOrPhdr) == [seq |-> ShdrOrPhdr.notes, Err |-> ShdrOrPhdr.err]

\* The test of lines 33-34 done on the note type alone.
isBuildIDNote_typeOnly(N) == N.n_type = NT_GNU_BUILD_ID

\* Lines 33-34: the note's type and its name must both match.
isBuildIDNote(N) ==
  /\ N.n_type = NT_GNU_BUILD_ID
  /\ getName(N) = ELF_NOTE_GNU

\* The range-for of lines 32-35: the first matching note ends the loop.
RECURSIVE noteLoop(_, _, _)
noteLoop(Ns, k, Alignment) ==
  IF k > Len(Ns) THEN [has_value |-> FALSE, value |-> <<>>]
  ELSE IF isBuildIDNote(Ns[k])
       THEN [has_value |-> TRUE, value |-> getDesc(Ns[k], Alignment)]
       ELSE noteLoop(Ns, k + 1, Alignment)

\* The lambda of lines 29-38. When the loop runs off the end the error the
\* iterator may have set is consumed (line 36) and nullopt is returned.
findBuildID(ShdrOrPhdr, Alignment) ==
  noteLoop(notes(ShdrOrPhdr).seq, 1, Alignment)

\* Lines 41-46: sections in header order, SHT_NOTE only.
RECURSIVE sectionLoop(_, _, _)
sectionLoop(Sections, i, scanned) ==
  IF i > Len(Sections)
  THEN [has_value |-> FALSE, value |-> <<>>, scanned |-> scanned]
  ELSE IF Sections[i].sh_type # SHT_NOTE
       THEN sectionLoop(Sections, i + 1, scanned)
       ELSE LET ShdrRes == findBuildID(Sections[i], Sections[i].sh_addralign)
                sc == Append(scanned, <<"shdr", i>>)
            IN IF ShdrRes.has_value
               THEN [has_value |-> TRUE, value |-> ShdrRes.value, scanned |-> sc]
               ELSE sectionLoop(Sections, i + 1, sc)

\* Lines 52-57: program headers in header order, PT_NOTE only.
RECURSIVE programHeaderLoop(_, _, _)
programHeaderLoop(Phdrs, i, scanned) ==
  IF i > Len(Phdrs)
  THEN [has_value |-> FALSE, value |-> <<>>, scanned |-> scanned]
  ELSE IF Phdrs[i].p_type # PT_NOTE
       THEN programHeaderLoop(Phdrs, i + 1, scanned)
       ELSE LET PhdrRes == findBuildID(Phdrs[i], Phdrs[i].p_align)
                sc == Append(scanned, <<"phdr", i>>)
            IN IF PhdrRes.has_value
               THEN [has_value |-> TRUE, value |-> PhdrRes.value, scanned |-> sc]
               ELSE programHeaderLoop(Phdrs, i + 1, sc)

\* getBuildID(const ELFFile &) with the two loops in the other order.
getBuildIDELFFile_phdrFirst(O) ==
  IF ~O.sections.ok
  THEN [status |-> "aborted", value |-> <<>>, found |-> FALSE, scanned |-> <<>>]
  ELSE IF ~O.program_headers.ok
  THEN [status |-> "done", value |-> <<>>, found |-> FALSE, scanned |-> <<>>]
  ELSE LET P == programHeaderLoop(O.program_headers.val, 1, <<>>) IN
       IF P.has_value
       THEN [status |-> "done", value |-> P.value, found |-> TRUE,
             scanned |-> P.scanned]
       ELSE LET S == sectionLoop(O.sections.val, 1, P.scanned) IN
            [status |-> "done", value |-> S.value, found |-> S.has_value,
             scanned |-> S.scanned]

\* template <typename ELFT> BuildIDRef getBuildID(const ELFFile<ELFT> &Obj),
\* lines 28-59. cantFail (line 40) ends the program when Obj.sections()
\* holds an error; a failed Obj.program_headers() is consumed (lines 48-51).
getBuildIDELFFile(O) ==
  IF ~O.sections.ok
  THEN [status |-> "aborted", value |-> <<>>, found |-> FALSE, scanned |-> <<>>]
  ELSE LET S == sectionLoop(O.sections.val, 1, <<>>) IN
       IF S.has_value
       THEN [status |-> "done", value |-> S.value, found |-> TRUE,
             scanned |-> S.scanned]
       ELSE IF ~O.program_headers.ok
       THEN [status |-> "done", value |-> <<>>, found |-> FALSE,
             scanned |-> S.scanned]
       ELSE LET P == programHeaderLoop(O.program_headers.val, 1, S.scanned) IN
            [status |-> "done", value |-> P.value, found |-> P.has_value,
             scanned |-> P.scanned]

----------------------------------------------------------------------------
(* COFF: the debug directory.                                               *)

IMAGE_DEBUG_TYPE_CODEVIEW == 2
PDB70 == 1396986706    \* OMF::Signature::PDB70, the bytes "RSDS"

\* COFFObjectFile::getDebugPDBInfo(&DebugDir, DebugInfo, PDBFileName): an
\* error code, or the decoded codeview::DebugInfo of the entry.
getDebugPDBInfo(DebugDir) ==
  [EC |-> ~DebugDir.decodes,
   DebugInfo |-> [CVSignature |-> DebugDir.CVSignature,
                  Signature |-> DebugDir.Signature,
                  Age |-> DebugDir.Age]]

\* Lines 84-88 with the four bytes pushed most-significant first.
appendAge_bigEndian(Result, Age) ==
  Result \o << (Age \div 16777216) % 256, (Age \div 65536) % 256,
               (Age \div 256) % 256, Age % 256 >>

\* Lines 84-88: Age & 0xFF, (Age >> 8) & 0xFF, (Age >> 16) & 0xFF,
\* (Age >> 24) & 0xFF, pushed in this order.
appendAge(Result, Age) ==
  Result \o << Age % 256, (Age \div 256) % 256,
               (Age \div 65536) % 256, (Age \div 16777216) % 256 >>

\* The loop of lines 65-92.
RECURSIVE debugDirLoop(_, _)
debugDirLoop(Dirs, i) ==
  IF i > Len(Dirs) THEN <<>>
  ELSE IF Dirs[i].Type # IMAGE_DEBUG_TYPE_CODEVIEW THEN debugDirLoop(Dirs, i + 1)
  ELSE LET R == getDebugPDBInfo(Dirs[i]) IN
       IF R.EC THEN debugDirLoop(Dirs, i + 1)
       ELSE IF R.DebugInfo.CVSignature = PDB70
            THEN appendAge(SubSeq(R.DebugInfo.Signature, 1, 16), R.DebugInfo.Age)
            ELSE debugDirLoop(Dirs, i + 1)

\* static BuildID getCOFFBuildID(const COFFObjectFile *Obj), lines 64-94.
getCOFFBuildID(O) == debugDirLoop(O.debug_directories, 1)

----------------------------------------------------------------------------
(* The two entry points that take an ObjectFile.                            *)

ELFKinds == {"ELF32LE", "ELF32BE", "ELF64LE", "ELF64BE"}

NotFound == [status |-> "done", value |-> <<>>, found |-> FALSE, scanned |-> <<>>]

\* llvm::object::getBuildID without its last dyn_cast (lines 112-113).
getBuildID_noELF64BE(O) ==
  IF O.kind = "ELF32LE" THEN getBuildIDELFFile(O)
  ELSE IF O.kind = "ELF32BE" THEN getBuildIDELFFile(O)
  ELSE IF O.kind = "ELF64LE" THEN getBuildIDELFFile(O)
  ELSE NotFound

\* BuildIDRef llvm::object::getBuildID(const ObjectFile *Obj), lines 105-115.
getBuildID(O) ==
  IF O.kind = "ELF32LE" THEN getBuildIDELFFile(O)
  ELSE IF O.kind = "ELF32BE" THEN getBuildIDELFFile(O)
  ELSE IF O.kind = "ELF64LE" THEN getBuildIDELFFile(O)
  ELSE IF O.kind = "ELF64BE" THEN getBuildIDELFFile(O)
  ELSE NotFound

\* BuildID llvm::object::getCOFFDebugID(const ObjectFile *Obj), lines 117-121.
getCOFFDebugID(O) ==
  IF O.kind = "COFF" THEN getCOFFBuildID(O) ELSE <<>>

----------------------------------------------------------------------------
(* Hex.                                                                     *)

LowerDigits ==
  <<"0", "1", "2", "3", "4", "5", "6", "7", "8", "9", "a", "b", "c", "d", "e", "f">>
UpperDigits ==
  <<"0", "1", "2", "3", "4", "5", "6", "7", "8", "9", "A", "B", "C", "D", "E", "F">>

\* llvm::hexDigitValue: 0..15 for a hex digit of either case, -1 otherwise.
hexDigitValue(C) ==
  IF \E i \in 1..16 : LowerDigits[i] = C
  THEN (CHOOSE i \in 1..16 : LowerDigits[i] = C) - 1
  ELSE IF \E i \in 1..16 : UpperDigits[i] = C
  THEN (CHOOSE i \in 1..16 : UpperDigits[i] = C) - 1
  ELSE -1

\* llvm::tryGetFromHex(Input, Output): succeeds on an even number of
\* characters that are all hex digits, and then Output holds one byte per
\* pair of characters.
tryGetFromHex(Input) ==
  IF /\ Len(Input) % 2 = 0
     /\ \A k \in 1..Len(Input) : hexDigitValue(Input[k]) >= 0
  THEN [ok |-> TRUE,
        Output |-> [k \in 1..(Len(Input) \div 2) |->
                     16 * hexDigitValue(Input[2 * k - 1]) + hexDigitValue(Input[2 * k])]]
  ELSE [ok |-> FALSE, Output |-> <<>>]

\* parseBuildID with the test of line 98 inverted.
parseBuildID_inverted(S) ==
  IF tryGetFromHex(S).ok THEN <<>> ELSE tryGetFromHex(S).Output

\* BuildID llvm::object::parseBuildID(StringRef Str), lines 96-103.
parseBuildID(S) ==
  IF ~tryGetFromHex(S).ok THEN <<>> ELSE tryGetFromHex(S).Output

\* llvm::toHex(ArrayRef<uint8_t>, LowerCase): two digits per byte.
RECURSIVE toHex(_, _)
toHex(Input, LowerCase) ==
  IF Input = <<>> THEN ""
  ELSE LET T == IF LowerCase THEN LowerDigits ELSE UpperDigits IN
       T[(Head(Input) \div 16) + 1] \o T[(Head(Input) % 16) + 1]
         \o toHex(Tail(Input), LowerCase)

----------------------------------------------------------------------------
(* BuildIDFetcher::fetch.                                                   *)

DefaultDebugRoot == "/usr/lib/debug"     \* line 139; NetBSD: line 136

\* sys::path::append(Path, a, b, c): the components joined by the separator.
pathAppend(Path, a, b, c) == Path \o "/" \o a \o "/" \o b \o "/" \o c

\* llvm::sys::fs::exists(Path)
exists(Path, FS) == Path \in FS

\* GetDebugPath with LowerCase left at its default, false.
GetDebugPath_upperCase(ID, Directory) ==
  pathAppend(Directory, ".build-id", toHex(<<ID[1]>>, FALSE),
             toHex(Tail(ID), FALSE)) \o ".debug"

\* The lambda GetDebugPath of lines 124-131; ID is the captured BuildID.
GetDebugPath(ID, Directory) ==
  pathAppend(Directory, ".build-id", toHex(<<ID[1]>>, TRUE),
             toHex(Tail(ID), TRUE)) \o ".debug"

\* The loop of lines 145-150.
RECURSIVE directoryLoop(_, _, _, _, _)
directoryLoop(ID, Dirs, i, FS, probes) ==
  IF i > Len(Dirs) THEN [value |-> <<>>, probes |-> probes]
  ELSE LET Path == GetDebugPath(ID, Dirs[i]) IN
       IF exists(Path, FS)
       THEN [value |-> <<Path>>, probes |-> Append(probes, Path)]
       ELSE directoryLoop(ID, Dirs, i + 1, FS, Append(probes, Path))

\* The loop of lines 145-150 that keeps the last existing path.
RECURSIVE directoryLoop_last(_, _, _, _, _, _)
directoryLoop_last(ID, Dirs, i, FS, probes, best) ==
  IF i > Len(Dirs) THEN [value |-> best, probes |-> probes]
  ELSE LET Path == GetDebugPath(ID, Dirs[i]) IN
       directoryLoop_last(ID, Dirs, i + 1, FS, Append(probes, Path),
                          IF exists(Path, FS) THEN <<Path>> ELSE best)

\* Lines 132-143: the default root, probed when no directory is configured.
probeDefault(ID, FS, probes) ==
  LET Path == GetDebugPath(ID, DefaultDebugRoot) IN
  [value |-> IF exists(Path, FS) THEN <<Path>> ELSE <<>>,
   probes |-> Append(probes, Path)]

\* fetch that does not return at the first existing path.
fetch_lastMatch(ID, Dirs, FS) ==
  IF Dirs = <<>> THEN probeDefault(ID, FS, <<>>)
  ELSE directoryLoop_last(ID, Dirs, 1, FS, <<>>, <<>>)

\* fetch that falls back to the default root after the configured directories.
fetch_fallback(ID, Dirs, FS) ==
  LET L == directoryLoop(ID, Dirs, 1, FS, <<>>) IN
  IF L.value # <<>> THEN L ELSE probeDefault(ID, FS, L.probes)

\* std::optional<std::string> BuildIDFetcher::fetch(BuildIDRef BuildID) const,
\* lines 123-153, for a non-empty BuildID; <<>> is nullopt.
fetch(ID, Dirs, FS) ==
  IF Dirs = <<>> THEN probeDefault(ID, FS, <<>>)
  ELSE directoryLoop(ID, Dirs, 1, FS, <<>>)

----------------------------------------------------------------------------
(* The arguments the calls are made with.                                   *)

Note(type, name, desc4, desc8) ==
  [n_type |-> type, name |-> name, n_namesz |-> 4, n_descsz |-> 2,
   data |-> <<0, 0, 0, 0>> \o desc4 \o <<0, 0>> \o desc8]

NoteA == Note(NT_GNU_BUILD_ID, "GNU", <<161, 162>>, <<163, 164>>)
NoteB == Note(NT_GNU_BUILD_ID, "GNU", <<177, 178>>, <<179, 180>>)
NoteT == Note(NT_GNU_BUILD_ID, "XYZ", <<193, 194>>, <<195, 196>>)  \* type only
NoteN == Note(1, "GNU", <<209, 210>>, <<211, 212>>)                \* name only

\* A region carries what note iteration over it yields: run.notes, in
\* order, and run.err, whether the iteration ends on an error.
Shdr(type, align, run) ==
  [sh_type |-> type, sh_addralign |-> align, notes |-> run.notes, err |-> run.err]

Phdr(type, align, run) ==
  [p_type |-> type, p_align |-> align, notes |-> run.notes, err |-> run.err]

SectionHeaders ==
  { Shdr(1, 4, [notes |-> <<NoteA>>, err |-> FALSE]),
    Shdr(SHT_NOTE, 4, [notes |-> <<NoteN, NoteT, NoteA, NoteB>>, err |-> FALSE]),
    Shdr(SHT_NOTE, 8, [notes |-> <<NoteB, NoteA>>, err |-> FALSE]),
    Shdr(SHT_NOTE, 4, [notes |-> <<NoteT, NoteN>>, err |-> TRUE]),
    Shdr(SHT_NOTE, 8, [notes |-> <<>>, err |-> FALSE]) }

ProgramHeaders ==
  { Phdr(1, 4, [notes |-> <<NoteA>>, err |-> FALSE]),
    Phdr(PT_NOTE, 4, [notes |-> <<NoteN, NoteT, NoteA, NoteB>>, err |-> FALSE]),
    Phdr(PT_NOTE, 8, [notes |-> <<NoteB, NoteA>>, err |-> FALSE]),
    Phdr(PT_NOTE, 4, [notes |-> <<NoteT, NoteN>>, err |-> TRUE]),
    Phdr(PT_NOTE, 8, [notes |-> <<>>, err |-> FALSE]) }

\* Expected<T>: a value, or an error.
Expected(S) ==
  {[ok |-> TRUE, val |-> v] : v \in S} \cup {[ok |-> FALSE, val |-> <<>>]}

None == [ok |-> TRUE, val |-> <<>>]

ELFObjects ==
  [kind : ELFKinds,
   sections : Expected(SeqsUpTo(SectionHeaders, MaxRegions)),
   program_headers : Expected(SeqsUpTo(ProgramHeaders, MaxRegions)),
   debug_directories : {<<>>}]

\* Age is a uint32; the values chosen have four different bytes and stay
\* within the integers TLC evaluates.
GuidA == [i \in 1..16 |-> i]
GuidB == [i \in 1..16 |-> 256 - i]

DebugDirectories ==
  [Type : {IMAGE_DEBUG_TYPE_CODEVIEW, 4},
   decodes : BOOLEAN,
   CVSignature : {PDB70, 808534606},
   Signature : {GuidA, GuidB},
   Age : {16909060, 2130706433}]

COFFObjects ==
  [kind : {"COFF"}, sections : {None}, program_headers : {None},
   debug_directories : SeqsUpTo(DebugDirectories, MaxDebugDirs)]

OtherObjects ==
  [kind : {"MachO"}, sections : {None}, program_headers : {None},
   debug_directories : {<<>>}]

NoObject == [kind |-> "none"]

Characters == {"a", "B", "1", "2", "x"}

Directories == {"/dbg", "/opt/sym", DefaultDebugRoot}

BuildIDs == {<<222, 173, 190, 239>>, <<10>>, <<>>}

FilesOnDisk ==
  { "/dbg/.build-id/de/adbeef.debug",
    "/opt/sym/.build-id/de/adbeef.debug",
    "/usr/lib/debug/.build-id/de/adbeef.debug",
    "/dbg/.build-id/0a/.debug",
    "/dbg/.build-id/DE/ADBEEF.debug",
    "/dbg/.build-id/deadbeef.debug" }

----------------------------------------------------------------------------
(* The state machine.                                                       *)

InitObjectCall ==
  /\ \/ call = "getBuildID" /\ Obj \in ELFObjects \cup COFFObjects \cup OtherObjects
     \/ /\ call = "getCOFFDebugID"
        /\ Obj \in COFFObjects \cup OtherObjects
                     \cup {o \in ELFObjects : o.sections = None /\ o.program_headers.ok}
  /\ Str = <<>> /\ BuildID = <<>> /\ DebugFileDirectories = <<>> /\ fs = {}

InitParse ==
  /\ call = "parseBuildID"
  /\ Str \in SeqsUpTo(Characters, MaxStrLen)
  /\ Obj = NoObject /\ BuildID = <<>> /\ DebugFileDirectories = <<>> /\ fs = {}

InitFetch ==
  /\ call = "fetch"
  /\ BuildID \in BuildIDs
  /\ DebugFileDirectories \in SeqsUpTo(Directories, MaxDirs)
  /\ fs \in SUBSET FilesOnDisk
  /\ Obj = NoObject /\ Str = <<>>

Init ==
  /\ InitObjectCall \/ InitParse \/ InitFetch
  /\ pc = "call"
  /\ result = <<>>
  /\ trace = <<>>

CallGetBuildID ==
  /\ pc = "call" /\ call = "getBuildID"
  /\ LET R == getBuildID(Obj) IN
       /\ pc' = R.status
       /\ result' = R.value
       /\ trace' = [found |-> R.found, scanned |-> R.scanned]
  /\ UNCHANGED <<call, Obj, Str, BuildID, DebugFileDirectories, fs>>

CallGetCOFFDebugID ==
  /\ pc = "call" /\ call = "getCOFFDebugID"
  /\ pc' = "done"
  /\ result' = getCOFFDebugID(Obj)
  /\ UNCHANGED <<call, Obj, Str, BuildID, DebugFileDirectories, fs, trace>>

CallParseBuildID ==
  /\ pc = "call" /\ call = "parseBuildID"
  /\ pc' = "done"
  /\ result' = parseBuildID(Str)
  /\ UNCHANGED <<call, Obj, Str, BuildID, DebugFileDirectories, fs, trace>>

CallFetch ==
  /\ pc = "call" /\ call = "fetch" /\ BuildID # <<>>
  /\ LET R == fetch(BuildID, DebugFileDirectories, fs) IN
       /\ pc' = "done"
       /\ result' = R.value
       /\ trace' = R.probes
  /\ UNCHANGED <<call, Obj, Str, BuildID, DebugFileDirectories, fs>>

\* BuildID[0] on an empty BuildIDRef (line 127) is outside ArrayRef's
\* contract: any outcome is possible.
CallFetchEmptyBuildID ==
  /\ pc = "call" /\ call = "fetch" /\ BuildID = <<>>
  /\ pc' = "undefined"
  /\ result' \in {<<>>} \cup {<<p>> : p \in FilesOnDisk}
  /\ UNCHANGED <<call, Obj, Str, BuildID, DebugFileDirectories, fs, trace>>

Next ==
  \/ CallGetBuildID
  \/ CallGetCOFFDebugID
  \/ CallParseBuildID
  \/ CallFetch
  \/ CallFetchEmptyBuildID

Spec == Init /\ [][Next]_vars

----------------------------------------------------------------------------
(* Vocabulary of the properties, stated on the arguments and not on the     *)
(* operators above.                                                         *)

Range(s) == {s[i] : i \in DOMAIN s}

Min(S) == CHOOSE x \in S : \A y \in S : x <= y

Returned(c) == call = c /\ pc = "done"

Ended(c) == call = c /\ pc # "call"

IsELF == Obj.kind \in ELFKinds

\* A build-id note: type NT_GNU_BUILD_ID and name "GNU".
IsGnuBuildId(N) == N.n_type = 3 /\ N.name = "GNU"

\* <<i, k>>: note k of SHT_NOTE section i is a build-id note.
SectionHits ==
  IF ~Obj.sections.ok THEN {}
  ELSE LET S == Obj.sections.val IN
       UNION {{<<i, k>> : k \in {j \in 1..Len(S[i].notes) : IsGnuBuildId(S[i].notes[j])}} :
              i \in {j \in 1..Len(S) : S[j].sh_type = 7}}

\* <<i, k>>: note k of PT_NOTE segment i is a build-id note.
SegmentHits ==
  IF ~Obj.program_headers.ok THEN {}
  ELSE LET P == Obj.program_headers.val IN
       UNION {{<<i, k>> : k \in {j \in 1..Len(P[i].notes) : IsGnuBuildId(P[i].notes[j])}} :
              i \in {j \in 1..Len(P) : P[j].p_type = 4}}

\* The first pair in iteration order: regions first, then notes.
FirstHit(H) ==
  CHOOSE h \in H : \A g \in H : h[1] < g[1] \/ (h[1] = g[1] /\ h[2] <= g[2])

SectionDesc(h) ==
  getDesc(Obj.sections.val[h[1]].notes[h[2]], Obj.sections.val[h[1]].sh_addralign)

SegmentDesc(h) ==
  getDesc(Obj.program_headers.val[h[1]].notes[h[2]],
          Obj.program_headers.val[h[1]].p_align)

\* Where the returned descriptor was read: the region scanned last.
Source == IF trace.scanned = <<>> THEN "none"
          ELSE trace.scanned[Len(trace.scanned)][1]

----------------------------------------------------------------------------
(* C1. When build-id notes exist both in an SHT_NOTE section and in a       *)
(* PT_NOTE segment, getBuildID returns the descriptor of a section note,    *)
(* read from a section; a descriptor read from a program header is          *)
(* returned only when no SHT_NOTE section holds a build-id note.            *)
C1_SectionBeforeSegment ==
  (Returned("getBuildID") /\ IsELF) =>
    /\ (SectionHits # {} /\ SegmentHits # {}) =>
         /\ trace.found
         /\ Source = "shdr"
         /\ result \in {SectionDesc(h) : h \in SectionHits}
    /\ (trace.found /\ Source = "phdr") => SectionHits = {}

\* Both sources hold a build-id note, and the segments' first one has
\* another descriptor than the one returned.
C1_Witness ==
  /\ Returned("getBuildID") /\ IsELF
  /\ SectionHits # {} /\ SegmentHits # {}
  /\ result # SegmentDesc(FirstHit(SegmentHits))
  /\ result = SectionDesc(FirstHit(SectionHits))

----------------------------------------------------------------------------
\* The debug-directory entries that qualify: CodeView type, decodable as a
\* debug-info record, PDB 7.0 signature ("RSDS").
Qualifying ==
  {i \in 1..Len(Obj.debug_directories) :
     /\ Obj.debug_directories[i].Type = 2
     /\ Obj.debug_directories[i].decodes
     /\ Obj.debug_directories[i].CVSignature = 1396986706}

(* C2. On a COFF binary getCOFFDebugID returns, for the first qualifying    *)
(* debug-directory entry in stored order, exactly 20 bytes: the 16 GUID     *)
(* bytes verbatim, then the age least-significant byte first; entries that  *)
(* do not qualify are skipped, and the result is empty when none qualifies. *)
C2_CoffGuidAge ==
  (Returned("getCOFFDebugID") /\ Obj.kind = "COFF") =>
    IF Qualifying = {} THEN result = <<>>
    ELSE LET E == Obj.debug_directories[Min(Qualifying)] IN
         /\ Len(result) = 20
         /\ \A k \in 1..20 : result[k] \in 0..255
         /\ \A k \in 1..16 : result[k] = E.Signature[k]
         /\ result[17] + 256 * (result[18] + 256 * (result[19] + 256 * result[20]))
              = E.Age

\* The entry that is returned comes after one that was skipped.
C2_Witness ==
  /\ Returned("getCOFFDebugID") /\ Obj.kind = "COFF"
  /\ Qualifying # {} /\ Min(Qualifying) > 1
  /\ Len(result) = 20
  /\ result[17] # result[20]

----------------------------------------------------------------------------
(* C3, as claimed. getBuildID on a generic handle returns empty only when   *)
(* the binary is none of the four ELF variants and COFF, or when the        *)
(* extractor of its variant (the note scan for ELF, the debug-directory     *)
(* scan for COFF) finds no identifier.                                      *)
C3_AsClaimed ==
  (Returned("getBuildID") /\ result = <<>>) =>
    \/ Obj.kind \notin ELFKinds \cup {"COFF"}
    \/ IsELF /\ SectionHits = {} /\ SegmentHits = {}
    \/ Obj.kind = "COFF" /\ Qualifying = {}

(* C3, amended. getBuildID dispatches the four ELF variants to the note     *)
(* scan and ends as the scan ends; for every other binary, COFF included,   *)
(* it returns empty. getCOFFDebugID is the entry point that dispatches a    *)
(* COFF binary to the debug-directory scan; it returns empty for every      *)
(* other binary.                                                            *)
C3_Dispatch ==
  /\ Ended("getBuildID") =>
       IF IsELF
       THEN /\ pc = getBuildIDELFFile(Obj).status
            /\ result = getBuildIDELFFile(Obj).value
            /\ (pc = "done" /\ SectionHits \cup SegmentHits # {}) => result # <<>>
       ELSE pc = "done" /\ result = <<>>
  /\ Ended("getCOFFDebugID") =>
       /\ pc = "done"
       /\ IF Obj.kind = "COFF"
          THEN result = getCOFFBuildID(Obj) /\ (Qualifying # {} => result # <<>>)
          ELSE result = <<>>

\* getBuildID returned empty for a COFF binary that holds a qualifying entry.
C3_Witness ==
  /\ Returned("getBuildID")
  /\ Obj.kind = "COFF" /\ Qualifying # {}
  /\ result = <<>>

----------------------------------------------------------------------------
HexDigits ==
  {"0", "1", "2", "3", "4", "5", "6", "7", "8", "9",
   "a", "b", "c", "d", "e", "f", "A", "B", "C", "D", "E", "F"}

ValidHex(S) == Len(S) % 2 = 0 /\ \A k \in 1..Len(S) : S[k] \in HexDigits

----------------------------------------------------------------------------
\* The listed directories whose candidate file exists.
Holding ==
  {i \in 1..Len(DebugFileDirectories) :
     GetDebugPath(BuildID, DebugFileDirectories[i]) \in fs}

(* C5. With a non-empty identifier and a non-empty directory list, fetch    *)
(* probes the directories strictly in list order, stops at and returns the  *)
(* candidate path of the first directory whose file exists, and returns     *)
(* nullopt exactly when the file exists in none of the listed directories.  *)
C5_FirstExistingInOrder ==
  (Returned("fetch") /\ DebugFileDirectories # <<>>) =>
    LET n == IF Holding = {} THEN Len(DebugFileDirectories) ELSE Min(Holding) IN
    /\ trace = [i \in 1..n |-> GetDebugPath(BuildID, DebugFileDirectories[i])]
    /\ (result = <<>>) <=> (Holding = {})
    /\ Holding # {} =>
         result = <<GetDebugPath(BuildID, DebugFileDirectories[Min(Holding)])>>

\* [A, B] where only B holds the file: B's path is returned.
C5_Witness ==
  /\ Returned("fetch")
  /\ Len(DebugFileDirectories) = 2
  /\ DebugFileDirectories[1] # DebugFileDirectories[2]
  /\ Holding = {2}
  /\ result = <<GetDebugPath(BuildID, DebugFileDirectories[2])>>
  /\ Len(trace) = 2

----------------------------------------------------------------------------
\* The candidate under the platform default root.
DefaultCandidate == GetDebugPath(BuildID, "/usr/lib/debug")

(* C6, as claimed. fetch probes the default root if and only if the         *)
(* directory list is empty; with a non-empty list the default root is       *)
(* never probed.                                                            *)
C6_AsClaimed ==
  Returned("fetch") =>
    /\ DebugFileDirectories = <<>> => trace = <<DefaultCandidate>>
    /\ DefaultCandidate \in Range(trace) => DebugFileDirectories = <<>>

(* C6, amended. With an empty list fetch probes exactly the one candidate   *)
(* under the default root. With a non-empty list it probes candidates of    *)
(* listed directories only, at most one per entry, so the default root is   *)
(* probed only when the caller listed it, and never as a fallback when no   *)
(* listed directory holds the file.                                         *)
C6_DefaultRootOnlyWhenEmptyOrListed ==
  Returned("fetch") =>
    /\ DebugFileDirectories = <<>> => trace = <<DefaultCandidate>>
    /\ DebugFileDirectories # <<>> =>
         /\ Len(trace) <= Len(DebugFileDirectories)
         /\ \A k \in 1..Len(trace) :
              trace[k] = GetDebugPath(BuildID, DebugFileDirectories[k])
         /\ DefaultCandidate \in Range(trace) =>
              "/usr/lib/debug" \in Range(DebugFileDirectories)

\* No listed directory holds the file, the default root does and is not
\* listed: nothing is found and the default root was not asked.
C6_Witness ==
  /\ Returned("fetch")
  /\ DebugFileDirectories # <<>>
  /\ "/usr/lib/debug" \notin Range(DebugFileDirectories)
  /\ DefaultCandidate \in fs
  /\ result = <<>>
  /\ DefaultCandidate \notin Range(trace)

----------------------------------------------------------------------------
\* The directory the k-th probe was built from.
ProbedDirectory(k) ==
  IF DebugFileDirectories = <<>> THEN "/usr/lib/debug" ELSE DebugFileDirectories[k]

LowerHexByte(b) == LowerDigits[(b \div 16) + 1] \o LowerDigits[(b % 16) + 1]

RECURSIVE LowerHex(_)
LowerHex(bytes) ==
  IF bytes = <<>> THEN "" ELSE LowerHexByte(Head(bytes)) \o LowerHex(Tail(bytes))

(* C7. Every candidate path is D + "/.build-id/" + hex(B[0]) + "/" +        *)
(* hex(B[1..]) + ".debug", hex in lower case, two characters per byte,      *)
(* no separators: DE AD BE EF under /dbg is /dbg/.build-id/de/adbeef.debug. *)
C7_CandidatePathLayout ==
  Returned("fetch") =>
    \A k \in 1..Len(trace) :
      /\ trace[k] = ProbedDirectory(k) \o "/.build-id/" \o LowerHexByte(BuildID[1])
                      \o "/" \o LowerHex(Tail(BuildID)) \o ".debug"
      /\ Len(trace[k]) = Len(ProbedDirectory(k)) + 2 * Len(BuildID) + 18
      /\ (BuildID = <<222, 173, 190, 239>> /\ ProbedDirectory(k) = "/dbg")
           => trace[k] = "/dbg/.build-id/de/adbeef.debug"
      /\ (BuildID = <<10>> /\ ProbedDirectory(k) = "/opt/sym")
           => trace[k] = "/opt/sym/.build-id/0a/.debug"

\* DE AD BE EF was looked up under /dbg, and found there.
C7_Witness ==
  /\ Returned("fetch")
  /\ BuildID = <<222, 173, 190, 239>>
  /\ DebugFileDirectories # <<>> /\ DebugFileDirectories[1] = "/dbg"
  /\ result = <<"/dbg/.build-id/de/adbeef.debug">>

----------------------------------------------------------------------------
(* C8. For an ELF binary that holds no build-id note, getBuildID returns    *)
(* the empty reference and raises no failure, whether or not note           *)
(* iteration over some region reports an error.                             *)
C8_NoNoteReturnsEmpty ==
  (Ended("getBuildID") /\ IsELF /\ SectionHits = {} /\ SegmentHits = {}) =>
    /\ pc = "done"
    /\ result = <<>>

----------------------------------------------------------------------------
(* C9. When header enumeration fails (the section list or the program       *)
(* headers cannot be obtained), getBuildID still ends by returning a        *)
(* value, the empty reference when no identifier was found.                 *)
C9_HeaderFailureNotFatal ==
  (Ended("getBuildID") /\ IsELF
     /\ (~Obj.sections.ok \/ ~Obj.program_headers.ok)) =>
    /\ pc = "done"
    /\ ~trace.found => result = <<>>

----------------------------------------------------------------------------
\* The regions handed to findBuildID, as <<"shdr" or "phdr", index>>.
ScannedSections == {e[2] : e \in {x \in Range(trace.scanned) : x[1] = "shdr"}}
ScannedSegments == {e[2] : e \in {x \in Range(trace.scanned) : x[1] = "phdr"}}

(* C10. Within the chosen source (sections when one of them holds a         *)
(* build-id note, else segments) getBuildID returns the descriptor of the   *)
(* first build-id note in iteration order, decoded with that region's       *)
(* alignment (sh_addralign, p_align); regions that are not SHT_NOTE or      *)
(* PT_NOTE are never scanned, nothing past the returned note is scanned,    *)
(* and a note matching only the type or only the name is never returned.    *)
C10_FirstMatchInChosenSource ==
  (Returned("getBuildID") /\ IsELF) =>
    /\ SectionHits # {} =>
         /\ result = SectionDesc(FirstHit(SectionHits))
         /\ \A i \in ScannedSections : i <= FirstHit(SectionHits)[1]
         /\ ScannedSegments = {}
    /\ (SectionHits = {} /\ SegmentHits # {}) =>
         /\ result = SegmentDesc(FirstHit(SegmentHits))
         /\ \A i \in ScannedSegments : i <= FirstHit(SegmentHits)[1]
    /\ \A i \in ScannedSections : Obj.sections.val[i].sh_type = 7
    /\ \A i \in ScannedSegments : Obj.program_headers.val[i].p_type = 4
    /\ trace.found <=> (SectionHits \cup SegmentHits # {})

\* The note returned is the third of the second section, read with
\* alignment 4, behind a section that is not SHT_NOTE and behind a note of
\* the right type and a note of the right name.
C10_Witness ==
  /\ Returned("getBuildID") /\ IsELF
  /\ SectionHits # {}
  /\ FirstHit(SectionHits) = <<2, 3>>
  /\ Obj.sections.val[1].sh_type # 7
  /\ Obj.sections.val[1].notes # <<>>
  /\ Cardinality(SectionHits) > 1
  /\ result = <<161, 162>>

====
